---- MODULE Spec2Model ----
(***************************************************************************)
(* hetkinen: a grid of keys, each playing a head -> loop -> tail voice     *)
(* built from Web Audio buffer source nodes (src/src/App.tsx).             *)
(*                                                                         *)
(* The model covers the App component (sample loading, the reverb graph    *)
(* effect, rendering) and the NoteButton component (start, stop and the    *)
(* two "ended" callbacks), together with the part of the Web Audio         *)
(* AudioBufferSourceNode contract the code relies on:                      *)
(*   - start() throws InvalidStateError when start() was called before;    *)
(*   - stop() throws InvalidStateError when start() was never called;      *)
(*   - stop() on a playing node ends playback and queues "ended";          *)
(*   - a non-looping node that plays to the end of its buffer queues       *)
(*     "ended"; a looping node never ends by itself;                       *)
(*   - disconnect() removes every outgoing connection and never throws;    *)
(*   - nothing is rendered or dispatched while the context is suspended.   *)
(***************************************************************************)
EXTENDS Integers, Sequences, FiniteSets, TLC

(***************************************************************************)
(* Bounds of the model.                                                    *)
(***************************************************************************)
MaxVoices == 2      \* total number of start() calls explored
NumKeys == 2        \* number of NoteButtons explored
MaxNote == 100      \* midiNoteToName is applied to the notes -MaxNote..MaxNote

(***************************************************************************)
(* Constants of the program.                                               *)
(***************************************************************************)
Null == 0
Samples == {"head", "loop", "tail", "convolution"}
Kinds == {"head", "loop", "tail"}
Tones == <<0, 2, 4, 5, 7, 9, 11>>
BaseNote == 60
DryGain == 8        \* tenths: dryGainNode.gain.value = 0.8
WetGain == 2        \* tenths: wetGainNode.gain.value = 0.2

\* const note = 60 + octave * 12 + tone
NoteOf(octave, tone) == BaseNote + octave * 12 + tone

\* the NoteButtons explored: the first NumKeys tones of the octave-0 row
Keys == {NoteOf(0, Tones[i]) : i \in 1..NumKeys}

Range(s) == {s[i] : i \in 1..Len(s)}

\* 440 * 2^((note - 69) / 12), kept as its exponent in twelfths of an octave
midiNoteToPitch(note) == note - 69

\* midiNoteToPitch(note) / midiNoteToPitch(60): a quotient of powers of two is
\* the difference of the exponents
PitchOf(note) == midiNoteToPitch(note) - midiNoteToPitch(BaseNote)

\* const names = ["C", "C#", ...]
names == <<"C", "C#", "D", "D#", "E", "F", "F#", "G", "G#", "A", "A#", "B">>

\* the % of JavaScript: the result has the sign of the dividend
JsRem(a, b) == IF a >= 0 THEN a % b ELSE -((-a) % b)

\* names[i] of JavaScript: undefined outside the array
JsIndex(arr, i) == IF i \in 0..(Len(arr) - 1) THEN arr[i + 1] ELSE "undefined"

\* midiNoteToName with % read as the mathematical modulo
midiNoteToName_MathMod(note) ==
    JsIndex(names, note % 12) \o ToString((note \div 12) - 1)

\* midiNoteToName: `${names[note % 12]}${Math.floor(note / 12) - 1}`
midiNoteToName(note) ==
    LET octave == (note \div 12) - 1       \* \div rounds down, as Math.floor
        name == JsIndex(names, JsRem(note, 12))
    IN name \o ToString(octave)

VARIABLES
    data,              \* SWR: sample -> has its decoded buffer resolved
    error,             \* SWR: samples whose last fetch/decode failed
    seen,              \* the data the last render of App observed
    destState,         \* React state set by setDestinationNodes
    destinationNodes,  \* the prop captured by the buttons' start closures
    edges,             \* connections of the reverb graph
    gain,              \* gain values (tenths) of the gain nodes created
    audioState,        \* audioContext.state
    voices,            \* every voice created so far: key and three nodes
    handles,           \* key -> headSourceRef/loopSourceRef/tailSourceRef
    pressed,           \* key -> button transform is scale(0.8)
    err,               \* some handler ended with an uncaught exception
    nameArg,           \* the argument of a call of midiNoteToName
    nameOut            \* what that call returned, NoName before it returns

vars == <<data, error, seen, destState, destinationNodes, edges, gain,
          audioState, voices, handles, pressed, err, nameArg, nameOut>>

fnVars == <<nameArg, nameOut>>

appVars == <<data, error, seen, destState, destinationNodes, edges, gain>>

NoHandles == [head |-> Null, loop |-> Null, tail |-> Null]

\* a render that waits for the head sample only
View_HeadOnly == IF seen["head"] THEN "grid" ELSE "loading"

\* what the last render returned
View == IF seen["head"] /\ seen["loop"] /\ seen["tail"] THEN "grid" ELSE "loading"

VoiceIds == 1..Len(voices)

(***************************************************************************)
(* AudioBufferSourceNode                                                   *)
(***************************************************************************)

\* createSourceNode connecting to the first destination node only
createSourceNode_FirstOnly(buffer, pitch, destNodes, loop) ==
    [buffer |-> buffer, loop |-> loop, rate |-> pitch,
     conn |-> {destNodes[1]}, state |-> "armed",
     onended |-> FALSE, queued |-> FALSE]

\* createSourceNode: a fresh node, connected to every destination node
createSourceNode(buffer, pitch, destNodes, loop) ==
    [buffer |-> buffer, loop |-> loop, rate |-> pitch,
     conn |-> Range(destNodes), state |-> "armed",
     onended |-> FALSE, queued |-> FALSE]

\* node.start()
NodeStart(n) ==
    IF n.state = "armed"
    THEN [node |-> [n EXCEPT !.state = "playing"], threw |-> FALSE]
    ELSE [node |-> n, threw |-> TRUE]

\* node.stop(); an "ended" event is tracked only when a listener will run
NodeStop(n) ==
    IF n.state = "armed" THEN [node |-> n, threw |-> TRUE]
    ELSE IF n.state = "playing"
    THEN [node |-> [n EXCEPT !.state = "ended", !.queued = n.onended],
          threw |-> FALSE]
    ELSE [node |-> n, threw |-> FALSE]

\* node.disconnect()
NodeDisconnect(n) == [n EXCEPT !.conn = {}]

(***************************************************************************)
(* NoteButton                                                              *)
(***************************************************************************)

\* stopSourceRef without node.disconnect()
stopSourceRef_NoDisconnect(st, k, kind) ==
    LET v == st.handles[k][kind] IN
    IF v = Null
    THEN [st EXCEPT !.handles[k][kind] = Null]
    ELSE [st EXCEPT !.voices[v][kind] = NodeStop(st.voices[v][kind]).node,
                    !.handles[k][kind] = Null]

\* stopSourceRef without `sourceRef.current = null`
stopSourceRef_KeepsRef(st, k, kind) ==
    LET v == st.handles[k][kind] IN
    IF v = Null
    THEN st
    ELSE [st EXCEPT !.voices[v][kind] = NodeDisconnect(NodeStop(st.voices[v][kind]).node)]

\* stopSourceRef without the try/catch around node.stop()
stopSourceRef_Uncaught(st, k, kind) ==
    LET v == st.handles[k][kind] IN
    IF v = Null
    THEN [st EXCEPT !.handles[k][kind] = Null]
    ELSE LET r == NodeStop(st.voices[v][kind])
         IN IF r.threw
            THEN [st EXCEPT !.err = TRUE]
            ELSE [st EXCEPT !.voices[v][kind] = NodeDisconnect(r.node),
                            !.handles[k][kind] = Null]

\* stopSourceRef without the `if (headSource)` test: null.stop() is a TypeError
stopSourceRef_NoNullCheck(st, k, kind) ==
    LET v == st.handles[k][kind] IN
    IF v = Null
    THEN [st EXCEPT !.err = TRUE]
    ELSE [st EXCEPT !.voices[v][kind] = NodeDisconnect(NodeStop(st.voices[v][kind]).node),
                    !.handles[k][kind] = Null]

\* stopSourceRef on refs shared by all buttons (module-level instead of useRef)
stopSourceRef_SharedRef(st, k, kind) ==
    LET v == st.handles[k][kind]
        cleared == [kk \in DOMAIN st.handles |-> [st.handles[kk] EXCEPT ![kind] = Null]]
    IN
    IF v = Null
    THEN [st EXCEPT !.handles = cleared]
    ELSE [st EXCEPT !.voices[v][kind] = NodeDisconnect(NodeStop(st.voices[v][kind]).node),
                    !.handles = cleared]

\* stopSourceRef(ref), on the state st = [voices, handles, err]; the ref is
\* the handle `kind` of key k
stopSourceRef(st, k, kind) ==
    LET v == st.handles[k][kind] IN
    IF v = Null
    THEN [st EXCEPT !.handles[k][kind] = Null]
    ELSE LET r == NodeStop(st.voices[v][kind])      \* a throw is caught
         IN [st EXCEPT !.voices[v][kind] = NodeDisconnect(r.node),
                       !.handles[k][kind] = Null]

\* start that also starts the tail node
Start_StartsTail(k) ==
    /\ View = "grid"
    /\ Len(voices) < MaxVoices
    /\ LET pitch == PitchOf(k)
           hs == NodeStart(createSourceNode("head", pitch, destinationNodes, FALSE))
           headSource == [hs.node EXCEPT !.onended = TRUE]
           loopSource == createSourceNode("loop", pitch, destinationNodes, TRUE)
           tailSource == NodeStart(createSourceNode("tail", pitch, destinationNodes, FALSE)).node
           v == Len(voices) + 1
       IN /\ audioState' = IF audioState # "running" THEN "resuming" ELSE audioState
          /\ voices' = Append(voices, [key |-> k, head |-> headSource,
                                       loop |-> loopSource, tail |-> tailSource])
          /\ handles' = [handles EXCEPT ![k] = [head |-> v, loop |-> v, tail |-> v]]
          /\ err' = (err \/ hs.threw)
    /\ pressed' = [pressed EXCEPT ![k] = TRUE]
    /\ UNCHANGED <<fnVars, appVars>>

\* const start = () => { ... }
Start(k) ==
    /\ View = "grid"
    /\ Len(voices) < MaxVoices
    /\ LET pitch == PitchOf(k)
           hs == NodeStart(createSourceNode("head", pitch, destinationNodes, FALSE))
           headSource == [hs.node EXCEPT !.onended = TRUE]
           loopSource == createSourceNode("loop", pitch, destinationNodes, TRUE)
           tailSource == createSourceNode("tail", pitch, destinationNodes, FALSE)
           v == Len(voices) + 1
       IN /\ audioState' = IF audioState # "running" THEN "resuming" ELSE audioState
          /\ voices' = Append(voices, [key |-> k, head |-> headSource,
                                       loop |-> loopSource, tail |-> tailSource])
          /\ handles' = [handles EXCEPT ![k] = [head |-> v, loop |-> v, tail |-> v]]
          /\ err' = (err \/ hs.threw)
    /\ pressed' = [pressed EXCEPT ![k] = TRUE]
    /\ UNCHANGED <<fnVars, appVars>>

\* stop whose catch block tears the already started tail down
Stop_CatchTearsDown(k) ==
    /\ View = "grid"
    /\ LET st0 == [voices |-> voices, handles |-> handles, err |-> err]
           st1 == stopSourceRef(st0, k, "head")
           st2 == stopSourceRef(st1, k, "loop")
           t == st2.handles[k].tail
           st3 == IF t = Null THEN st2
                  ELSE LET r == NodeStart(st2.voices[t].tail)
                       IN IF r.threw
                          THEN stopSourceRef(st2, k, "tail")
                          ELSE [st2 EXCEPT !.voices[t].tail = [r.node EXCEPT !.onended = TRUE]]
       IN /\ voices' = st3.voices
          /\ handles' = st3.handles
          /\ err' = st3.err
    /\ pressed' = [pressed EXCEPT ![k] = FALSE]
    /\ UNCHANGED <<fnVars, appVars, audioState>>

\* const stop = () => { ... }
Stop(k) ==
    /\ View = "grid"
    /\ LET st0 == [voices |-> voices, handles |-> handles, err |-> err]
           st1 == stopSourceRef(st0, k, "head")
           st2 == stopSourceRef(st1, k, "loop")
           t == st2.handles[k].tail
           st3 == IF t = Null THEN st2
                  ELSE LET r == NodeStart(st2.voices[t].tail)   \* a throw is caught
                       IN [st2 EXCEPT !.voices[t].tail = [r.node EXCEPT !.onended = TRUE]]
       IN /\ voices' = st3.voices
          /\ handles' = st3.handles
          /\ err' = st3.err
    /\ pressed' = [pressed EXCEPT ![k] = FALSE]
    /\ UNCHANGED <<fnVars, appVars, audioState>>

\* a non-looping node plays to the end of its buffer
Finish(v, kind) ==
    /\ v \in VoiceIds
    /\ audioState = "running"
    /\ voices[v][kind].state = "playing"
    /\ ~voices[v][kind].loop
    /\ voices' = [voices EXCEPT ![v][kind].state = "ended",
                                ![v][kind].queued = voices[v][kind].onended]
    /\ UNCHANGED <<fnVars, appVars, audioState, handles, pressed, err>>

\* a listener that starts loopSourceRef.current instead of the loopSource it
\* closed over
HeadEnded_StartsCurrentRef(v) ==
    /\ v \in VoiceIds
    /\ audioState = "running"
    /\ voices[v].head.queued
    /\ LET w == handles[voices[v].key].loop
           delivered == [voices EXCEPT ![v].head.queued = FALSE]
       IN IF w = Null
          THEN voices' = delivered /\ err' = TRUE
          ELSE LET r == NodeStart(voices[w].loop)
               IN /\ voices' = [delivered EXCEPT ![w].loop = r.node]
                  /\ err' = (err \/ r.threw)
    /\ UNCHANGED <<fnVars, appVars, audioState, handles, pressed>>

\* headSource.addEventListener("ended", () => { loopSource.start(); })
HeadEnded(v) ==
    /\ v \in VoiceIds
    /\ audioState = "running"
    /\ voices[v].head.queued
    /\ LET r == NodeStart(voices[v].loop)
       IN /\ voices' = [voices EXCEPT ![v].head.queued = FALSE,
                                      ![v].loop = r.node]
          /\ err' = (err \/ r.threw)
    /\ UNCHANGED <<fnVars, appVars, audioState, handles, pressed>>

\* a tail callback that tears the loop handle down as well
TailEnded_AlsoStopsLoop(v) ==
    /\ v \in VoiceIds
    /\ audioState = "running"
    /\ voices[v].tail.queued
    /\ LET st0 == [voices |-> [voices EXCEPT ![v].tail.queued = FALSE],
                   handles |-> handles, err |-> err]
           st1 == stopSourceRef(st0, voices[v].key, "loop")
           st2 == stopSourceRef(st1, voices[v].key, "tail")
       IN /\ voices' = st2.voices
          /\ handles' = st2.handles
          /\ err' = st2.err
    /\ UNCHANGED <<fnVars, appVars, audioState, pressed>>

\* tailSource.onended = () => stopSourceRef(tailSourceRef)
TailEnded(v) ==
    /\ v \in VoiceIds
    /\ audioState = "running"
    /\ voices[v].tail.queued
    /\ LET st0 == [voices |-> [voices EXCEPT ![v].tail.queued = FALSE],
                   handles |-> handles, err |-> err]
           st1 == stopSourceRef(st0, voices[v].key, "tail")
       IN /\ voices' = st1.voices
          /\ handles' = st1.handles
          /\ err' = st1.err
    /\ UNCHANGED <<fnVars, appVars, audioState, pressed>>

\* the promise of audioContext.resume() resolves
ResumeDone ==
    /\ audioState = "resuming"
    /\ audioState' = "running"
    /\ UNCHANGED <<fnVars, appVars, voices, handles, pressed, err>>

(***************************************************************************)
(* App                                                                     *)
(***************************************************************************)

\* useSampleData: the fetcher resolves with the decoded buffer
LoadOk(s) ==
    /\ ~data[s]
    /\ data' = [data EXCEPT ![s] = TRUE]
    /\ error' = error \ {s}
    /\ UNCHANGED <<fnVars, seen, destState, destinationNodes, edges, gain,
                   audioState, voices, handles, pressed, err>>

\* useSampleData: the fetcher throws ("Failed to fetch audio", decode error)
LoadFail(s) ==
    /\ ~data[s]
    /\ s \notin error
    /\ error' = error \cup {s}
    /\ UNCHANGED <<fnVars, data, seen, destState, destinationNodes, edges, gain,
                   audioState, voices, handles, pressed, err>>

\* App re-renders: the buttons exist once head, loop and tail have data, and
\* their closures capture the current destinationNodes state
Render ==
    /\ seen # data \/ destinationNodes # destState
    /\ seen' = data
    /\ destinationNodes' = destState
    /\ UNCHANGED <<fnVars, data, error, destState, edges, gain,
                   audioState, voices, handles, pressed, err>>

\* the effect without convolver.connect(audioContext.destination)
BuildReverb_ConvolverUnconnected ==
    /\ seen["convolution"]
    /\ edges = {}
    /\ edges' = {<<"dryGain", "output">>, <<"wetGain", "convolver">>}
    /\ gain' = [n \in {"dryGain", "wetGain"} |->
                    IF n = "dryGain" THEN DryGain ELSE WetGain]
    /\ destState' = <<"dryGain", "wetGain">>
    /\ UNCHANGED <<fnVars, data, error, seen, destinationNodes,
                   audioState, voices, handles, pressed, err>>

\* React.useEffect(() => { if (convolution.data) { ... } }, [.., convolution.data])
BuildReverb ==
    /\ seen["convolution"]
    /\ edges = {}
    /\ edges' = {<<"convolver", "output">>, <<"dryGain", "output">>,
                 <<"wetGain", "convolver">>}
    /\ gain' = [n \in {"dryGain", "wetGain"} |->
                    IF n = "dryGain" THEN DryGain ELSE WetGain]
    /\ destState' = <<"dryGain", "wetGain">>
    /\ UNCHANGED <<fnVars, data, error, seen, destinationNodes,
                   audioState, voices, handles, pressed, err>>

(***************************************************************************)
(* Specification                                                           *)
(***************************************************************************)
NoName == ""

Init ==
    /\ data = [s \in Samples |-> FALSE]
    /\ error = {}
    /\ seen = [s \in Samples |-> FALSE]
    /\ destState = <<"output">>
    /\ destinationNodes = <<"output">>
    /\ edges = {}
    /\ gain = <<>>
    /\ audioState = "suspended"
    /\ voices = <<>>
    /\ handles = [k \in Keys |-> NoHandles]
    /\ pressed = [k \in Keys |-> FALSE]
    /\ err = FALSE
    /\ nameArg = BaseNote
    /\ nameOut = NoName

Next ==
    \/ \E k \in Keys : Start(k)
    \/ \E k \in Keys : Stop(k)
    \/ \E v \in 1..MaxVoices : \E kind \in {"head", "tail"} : Finish(v, kind)
    \/ \E v \in 1..MaxVoices : HeadEnded(v)
    \/ \E v \in 1..MaxVoices : TailEnded(v)
    \/ ResumeDone
    \/ \E s \in Samples : LoadOk(s)
    \/ \E s \in Samples : LoadFail(s)
    \/ Render
    \/ BuildReverb

Spec == Init /\ [][Next]_vars

\* the specification with the scheduling the platform provides: a resume()
\* requested from a user gesture completes, a started tail plays to its end
\* and its "ended" event is dispatched
FairSpec ==
    /\ Spec
    /\ WF_vars(ResumeDone)
    /\ \A v \in 1..MaxVoices : WF_vars(Finish(v, "tail")) /\ WF_vars(TailEnded(v))

(***************************************************************************)
(* midiNoteToName as a function of any integer: one call on one note       *)
(***************************************************************************)
Notes == (-MaxNote)..MaxNote

NameInit ==
    /\ data = [s \in Samples |-> FALSE]
    /\ error = {}
    /\ seen = [s \in Samples |-> FALSE]
    /\ destState = <<"output">>
    /\ destinationNodes = <<"output">>
    /\ edges = {}
    /\ gain = <<>>
    /\ audioState = "suspended"
    /\ voices = <<>>
    /\ handles = [k \in Keys |-> NoHandles]
    /\ pressed = [k \in Keys |-> FALSE]
    /\ err = FALSE
    /\ nameArg \in Notes
    /\ nameOut = NoName

\* the call returns
CallName ==
    /\ nameOut = NoName
    /\ nameOut' = midiNoteToName(nameArg)
    /\ UNCHANGED <<nameArg, appVars, audioState, voices, handles, pressed, err>>

NameSpec == NameInit /\ [][CallName]_vars

(***************************************************************************)
(* Properties                                                              *)
(***************************************************************************)
Idle(k) == handles[k] = NoHandles

VoicesOf(k) == {v \in VoiceIds : voices[v].key = k}

\* the node is audible: playing and connected to some destination node
Sounding(n) == n.state = "playing" /\ n.conn # {}

\* the playing/connected state of the three nodes of a voice
Audio(voice) == [kind \in Kinds |-> <<voice[kind].state, voice[kind].conn>>]

\* C1: at most one head node, one loop node and one tail node created by a
\* key are connected to the audio graph, in every reachable state.
C1_OneLiveVoicePerKey ==
    \A k \in Keys : \A kind \in Kinds :
        Cardinality({v \in VoicesOf(k) : voices[v][kind].conn # {}}) <= 1

\* C2: the head-ended callback of a head that stop already reached (the head
\* is disconnected while its event is still pending) is a no-op: it changes
\* no node's playing/connected state and no handle.
C2_CancelledHeadEndedIsNoOp ==
    [][\A v \in VoiceIds :
          (voices[v].head.conn = {} /\ HeadEnded(v))
              => /\ handles' = handles
                 /\ \A w \in VoiceIds : Audio(voices'[w]) = Audio(voices[w])]_vars

\* C3: a key whose only voice was released by stop (the key was started once
\* and its last gesture is a stop), and whose head-ended and
\* tail-ended events have both been delivered (in either order), is IDLE and
\* has no node that is playing and connected; this covers the voice released
\* before its head completed.
C3_NoResidualAudio ==
    \A k \in Keys : \A v \in VoicesOf(k) :
        ( /\ VoicesOf(k) = {v}
          /\ ~pressed[k]
          /\ voices[v].head.state = "ended" /\ ~voices[v].head.queued
          /\ voices[v].tail.state = "ended" /\ ~voices[v].tail.queued )
        => /\ Idle(k)
           /\ \A kind \in Kinds : ~Sounding(voices[v][kind])

\* C3 witness: the voice was released before its head-ended event was
\* delivered: its loop was started by the late callback, after stop had
\* disconnected it, and loops on unheard; both events are delivered
C3_Witness ==
    \E k \in Keys : \E v \in VoicesOf(k) :
        /\ VoicesOf(k) = {v}
        /\ ~pressed[k]
        /\ voices[v].head.state = "ended" /\ ~voices[v].head.queued
        /\ voices[v].tail.state = "ended" /\ ~voices[v].tail.queued
        /\ voices[v].loop.state = "playing" /\ voices[v].loop.conn = {}
        /\ Idle(k)

\* C4: the tail-ended callback of voice V, firing when the key's tail handle
\* refers to a newer voice, leaves the key's handles and the newer voice's
\* nodes unchanged.
C4_StaleTailEndedIsGuarded ==
    [][\A v \in VoiceIds :
          LET k == voices[v].key
              w == handles[k].tail
          IN (w # Null /\ w # v /\ TailEnded(v))
                 => /\ handles'[k] = handles[k]
                    /\ voices'[w] = voices[w]]_vars

\* C5: a released key (stop was the last gesture on it) eventually has all
\* three handles null unless it is started again: from every moment on, the
\* key is eventually pressed or IDLE; and a key whose handles are all null
\* keeps them null in every step that is not a start of that key.
C5_ReleaseReturnsToIdle ==
    /\ \A k \in Keys : []<>(pressed[k] \/ Idle(k))
    /\ [][\A k \in Keys : (Idle(k) /\ ~pressed'[k]) => Idle(k)']_vars

\* C5 witness: a key went through a whole gesture (head ended, loop was
\* started, stop, tail ended) and is IDLE again
C5_Witness ==
    \E k \in Keys : \E v \in VoicesOf(k) :
        /\ Idle(k) /\ ~pressed[k]
        /\ voices[v].loop.state = "ended"
        /\ voices[v].tail.state = "ended" /\ ~voices[v].tail.queued

\* C6: a stop on a key whose tail is already playing leaves that tail node as
\* it is (not started again, playing, connected) and the handle on it; and
\* from a released key the tail-ended event of the handle's tail makes the
\* key IDLE.
C6_TailStartedOnce ==
    [][\A k \in Keys :
          LET t == handles[k].tail IN
          t # Null =>
            /\ (voices[t].tail.state = "playing" /\ Stop(k))
                   => /\ voices'[t].tail = voices[t].tail
                      /\ Sounding(voices'[t].tail)
                      /\ handles'[k] = [NoHandles EXCEPT !.tail = t]
            /\ (handles[k].head = Null /\ handles[k].loop = Null /\ TailEnded(t))
                   => Idle(k)']_vars

\* C6 witness: a released key with its tail playing; a further stop is taken
\* in this state and leads back to it
C6_Witness ==
    \E k \in Keys :
        /\ ~pressed[k]
        /\ handles[k].head = Null /\ handles[k].loop = Null
        /\ handles[k].tail # Null
        /\ Sounding(voices[handles[k].tail].tail)
        /\ voices[handles[k].tail].tail.onended

\* C7: no handler ends with an uncaught exception.
C7_NoUncaughtError == ~err

\* C7 witness: stop() was called on a loop node that was never started (it is
\* disconnected and still armed) and on a tail that a stale callback reached
\* before it was started
C7_Witness ==
    /\ ~err
    /\ \E v \in VoiceIds : voices[v].loop.state = "armed" /\ voices[v].loop.conn = {}
    /\ \E v \in VoiceIds : voices[v].tail.state = "armed" /\ voices[v].tail.conn = {}

\* C8: stop on an IDLE key changes no node, no handle and raises no error.
C8_StopWhenIdleIsNoOp ==
    [][\A k \in Keys : (Idle(k) /\ Stop(k))
          => /\ voices' = voices
             /\ handles' = handles
             /\ err' = err
             /\ audioState' = audioState]_vars

\* C8 witness: an IDLE key next to a key with a live voice, the buttons
\* mounted, after a stop
C8_Witness ==
    \E k \in Keys : \E j \in Keys :
        /\ View = "grid"
        /\ Idle(k) /\ ~pressed[k]
        /\ VoicesOf(k) # {}
        /\ handles[j].head # Null
        /\ Sounding(voices[handles[j].head].head)

\* C9: an event of key a leaves the handles of every other key b and every
\* node created by b unchanged.
C9_KeysIndependent ==
    [][\A a \in Keys : \A b \in Keys \ {a} :
          \/ /\ handles'[b] = handles[b]
             /\ \A w \in VoicesOf(b) : voices'[w] = voices[w]
          \/ ~( \/ Start(a) \/ Stop(a)
                \/ \E v \in VoicesOf(a) :
                      \/ Finish(v, "head") \/ Finish(v, "tail")
                      \/ HeadEnded(v) \/ TailEnded(v) )]_vars

\* C9 witness: two keys have a voice sounding at the same time
C9_Witness ==
    \E a \in Keys : \E b \in Keys \ {a} :
        /\ handles[a].loop # Null /\ Sounding(voices[handles[a].loop].loop)
        /\ handles[b].head # Null /\ Sounding(voices[handles[b].head].head)

\* C10: the buttons' DestinationSet changes once, from [output] to
\* [dryGain, wetGain], and that step changes no node; a node's connections
\* never change except by being dropped altogether; a node created by start
\* is connected to exactly the DestinationSet of that moment.
C10_SwapKeepsConnections ==
    [][/\ destinationNodes' # destinationNodes
          => /\ voices' = voices
             /\ destinationNodes = <<"output">>
             /\ destinationNodes' = <<"dryGain", "wetGain">>
       /\ \A v \in VoiceIds : \A kind \in Kinds :
             voices'[v][kind].conn \in {voices[v][kind].conn, {}}
       /\ \A v \in (1..Len(voices')) \ VoiceIds : \A kind \in Kinds :
             voices'[v][kind].conn = Range(destinationNodes)]_vars

\* C10 witness: after the swap, a tail created before it plays through the
\* output while a voice created after it is connected to the two gain nodes
C10_Witness ==
    /\ destinationNodes = <<"dryGain", "wetGain">>
    /\ \E v \in VoiceIds : \E w \in VoiceIds :
          /\ voices[v].tail.state = "playing" /\ voices[v].tail.conn = {"output"}
          /\ \A kind \in Kinds : voices[w][kind].conn = {"dryGain", "wetGain"}

\* C11 as stated: the grid is rendered, and a voice started, only when all
\* four buffers (head, loop, tail and impulse response) have resolved.
C11_GridNeedsAllFour ==
    (View = "grid" \/ voices # <<>>) => \A s \in Samples : data[s]

\* C11 as amended: the grid is rendered, and a voice started, only when the
\* head, loop and tail buffers have resolved; until then the display is
\* "loading" and there is no voice.
C11_GridNeedsHeadLoopTail ==
    /\ (View = "grid" \/ voices # <<>>)
           => data["head"] /\ data["loop"] /\ data["tail"]
    /\ ~(data["head"] /\ data["loop"] /\ data["tail"])
           => View = "loading" /\ voices = <<>>

\* C11 witness: the grid is up and a voice was started while the impulse
\* response is still missing
C11_Witness ==
    /\ View = "grid"
    /\ ~data["convolution"]
    /\ voices # <<>>

\* C12: while the load of some asset has failed, an up-to-date render shows an
\* error display, distinct from the loading display, and no voice is started.
C12_LoadErrorDisplayed ==
    /\ [](error # {} /\ seen = data => View = "error")
    /\ [][error # {} => Len(voices') = Len(voices)]_vars

\* the number of paths of the graph E that lead from a node of S to the output
RECURSIVE PathsToOutput(_, _)
PathsToOutput(E, S) ==
    IF S = {} THEN 0
    ELSE LET n == CHOOSE x \in S : TRUE
             next == {e[2] : e \in {x \in E : x[1] = n}}
         IN (IF n = "output" THEN 1 ELSE PathsToOutput(E, next))
            + PathsToOutput(E, S \ {n})

\* C13: before the reverb graph is built the DestinationSet is [output]; once
\* built it is [dryGain, wetGain], there are exactly two paths from it to the
\* output (dryGain -> output, wetGain -> convolver -> output), and the gains
\* are 0.8 and 0.2, summing to 1.0 (in tenths: 8, 2, 10).
C13_ReverbGraph ==
    /\ edges = {} => destState = <<"output">> /\ destinationNodes = <<"output">>
    /\ edges # {} =>
          /\ destState = <<"dryGain", "wetGain">>
          /\ PathsToOutput(edges, Range(destState)) = 2
          /\ {<<"dryGain", "output">>, <<"wetGain", "convolver">>,
              <<"convolver", "output">>} \subseteq edges
          /\ gain["dryGain"] = 8 /\ gain["wetGain"] = 2
          /\ gain["dryGain"] + gain["wetGain"] = 10

\* C13 witness: the graph is built and the buttons have the new set
C13_Witness ==
    /\ edges # {}
    /\ destinationNodes = <<"dryGain", "wetGain">>
    /\ PathsToOutput(edges, Range(destinationNodes)) = 2

\* C14: for every integer note, negative ones included, midiNoteToName
\* returns the pitch-class name at index note mod 12 (in 0..11) followed by
\* the octave floor(note / 12) - 1.
C14_NameOfEveryInteger ==
    nameOut # NoName
        => nameOut = names[(nameArg % 12) + 1] \o ToString((nameArg \div 12) - 1)

\* C16: right after start on a key, its three handles refer to the three
\* nodes of one new voice; the head is playing, the loop node (loop flag set)
\* and the tail node are not started; the three have the same playback rate
\* and each is connected to exactly the DestinationSet current at that start.
C16_StartPostcondition ==
    [][\A k \in Keys :
          (Len(voices') = Len(voices) + 1 /\ Start(k)) =>
              LET v == Len(voices')
                  n == voices'[v]
              IN /\ v \notin VoiceIds
                 /\ n.key = k
                 /\ handles'[k] = [head |-> v, loop |-> v, tail |-> v]
                 /\ n.head.state = "playing"
                 /\ n.loop.state = "armed" /\ n.loop.loop
                 /\ n.tail.state = "armed"
                 /\ ~n.head.loop /\ ~n.tail.loop
                 /\ \A kind \in Kinds :
                       /\ n[kind].buffer = kind
                       /\ n[kind].rate = n.head.rate
                       /\ n[kind].conn = Range(destinationNodes)]_vars

\* C16 witness: a key just started: head playing, loop and tail armed, all
\* three connected, while an earlier voice exists
C16_Witness ==
    \E k \in Keys :
        LET v == handles[k].head IN
        /\ v # Null /\ v = Len(voices) /\ v > 1
        /\ handles[k].loop = v /\ handles[k].tail = v
        /\ voices[v].head.state = "playing"
        /\ voices[v].loop.state = "armed" /\ voices[v].tail.state = "armed"
        /\ \A kind \in Kinds : voices[v][kind].conn = Range(destinationNodes)

\* C17: a loop node is playing only after its voice's head ended and the
\* head-ended event was delivered; the head-ended event of a voice that stop
\* has not reached leaves its loop playing and connected; a loop that is
\* playing and connected stays so in every step that is not a stop of its key.
C17_HeadThenLoopAndSustain ==
    /\ [](\A v \in VoiceIds :
             voices[v].loop.state = "playing"
                 => voices[v].head.state = "ended" /\ ~voices[v].head.queued)
    /\ [][\A v \in VoiceIds :
             /\ (voices[v].head.conn # {} /\ HeadEnded(v))
                    => Sounding(voices'[v].loop)
             /\ Sounding(voices[v].loop)
                    => (Sounding(voices'[v].loop) \/ Stop(voices[v].key))]_vars

\* C17 witness: the loop of the key's current voice is sounding although the
\* tail-ended callback of an earlier voice has fired (it nulled the tail
\* handle of the current voice)
C17_Witness ==
    \E k \in Keys :
        LET v == handles[k].loop IN
        /\ v # Null
        /\ Sounding(voices[v].loop)
        /\ handles[k].tail = Null
        /\ \E w \in VoicesOf(k) : w < v /\ voices[w].tail.state = "ended"
                                        /\ ~voices[w].tail.queued

\* C18: the head-ended callback of voice v starts the loop node of v, which was
\* never started before, and changes no other voice; a loop node leaves the
\* armed state only by the head-ended callback of its own voice and is never
\* playing again once it ended; a head's event is delivered once.
C18_HeadEndedStartsOwnLoop ==
    [][\A v \in VoiceIds :
          /\ (voices[v].head.queued /\ HeadEnded(v))
                 => /\ voices[v].loop.state = "armed"
                    /\ voices'[v].loop.state = "playing"
                    /\ \A w \in VoiceIds \ {v} : voices'[w] = voices[w]
          /\ (voices[v].loop.state = "armed" /\ voices'[v].loop.state # "armed")
                 => HeadEnded(v)
          /\ voices[v].loop.state = "ended" => voices'[v].loop.state = "ended"
          /\ (voices[v].head.state = "ended" /\ ~voices[v].head.queued)
                 => ~voices'[v].head.queued]_vars

\* C18 witness: one key has two voices; the head-ended callback of the first
\* has started the first loop while the handles refer to the second voice,
\* whose loop is still armed
C18_Witness ==
    \E k \in Keys : \E v \in VoicesOf(k) : \E w \in VoicesOf(k) :
        /\ v < w
        /\ handles[k].loop = w
        /\ voices[v].loop.state = "playing"
        /\ voices[w].loop.state = "armed"

TypeOK ==
    /\ data \in [Samples -> BOOLEAN]
    /\ error \subseteq Samples
    /\ audioState \in {"suspended", "resuming", "running"}
    /\ Len(voices) <= MaxVoices
    /\ \A k \in Keys : \A kind \in Kinds : handles[k][kind] \in {Null} \cup VoiceIds
    /\ err \in BOOLEAN
====
